---------------------------- MODULE Spec2Model ----------------------------
(***************************************************************************)
(* A model of mtpy/core/edi_collection.py: the module function is_it_in    *)
(* and the class EdiCollection (constructor, _get_all_periods,             *)
(* get_periods_by_stats, create_mt_station_gdf, create_csv_files_moved,    *)
(* get_bounding_box).                                                      *)
(*                                                                         *)
(* Numbers.  A frequency is an integer number of micro-hertz, so that the  *)
(* absolute tolerance 0.00001 of is_it_in is 10 units and both sides of    *)
(* its strict comparison are representable.  A period is the exact         *)
(* rational <<n, d>> (n/d, d > 0) that the division 1.0/x yields; the      *)
(* rounding of IEEE doubles (at most one unit in the last place, eleven    *)
(* orders of magnitude below the tolerance for the frequencies used here)  *)
(* is not modelled.  The period tolerance ptol is a rational <<p, q>>.     *)
(*                                                                         *)
(* Python.  The module is Python 2 code (print_function from __future__ at *)
(* line 10, csv files opened in "wb"/"ab" mode at lines 245, 281, 287):    *)
(* the iteration order of a dict is arbitrary there, and it is modelled as *)
(* a nondeterministic choice.  Sequence indices are 1-based here and       *)
(* 0-based in the source.                                                  *)
(***************************************************************************)
EXTENDS Integers, Sequences, FiniteSets, TLC

VARIABLES
    constructed,      \* TRUE once EdiCollection(...) has returned an object
    error,            \* the exception the last operation raised, or None
    edifiles,         \* self.edifiles
    num_of_edifiles,  \* self.num_of_edifiles
    ptol,             \* self.ptol
    mt_obj_list,      \* self.mt_obj_list
    all_frequencies,  \* self.all_frequencies
    all_periods,      \* self.all_periods
    geopdf,           \* self.geopdf
    bound_box_dict,   \* self.bound_box_dict
    files,            \* the csv files on disk: file name -> sequence of rows
    call              \* the last call made: its name, arguments and return value

vars == << constructed, error, edifiles, num_of_edifiles, ptol, mt_obj_list,
           all_frequencies, all_periods, geopdf, bound_box_dict, files, call >>

obj_vars == << constructed, edifiles, num_of_edifiles, ptol, mt_obj_list,
               all_frequencies, all_periods, geopdf, bound_box_dict >>

None == "None"

\* v is None: a test that may be made of a value of any kind
IsNone(v) == ToString(v) = ToString(None)

(***************************************************************************)
(* Bounds and units                                                        *)
(***************************************************************************)
\* the most station files one collection is built from
MaxStations == 3

\* the longest sequence is_it_in is called with on its own
MaxSeqLen == 2

\* is_it_in's tolerance = 0.00001 Hz, in micro-hertz
tolerance == 10

\* one hertz, in micro-hertz
Hz == 100000 * tolerance

\* the default of the constructor's ptol parameter, 0.05
DefaultPtol == << 5, 100 >>

Ptols == { DefaultPtol, << 10, 100 >> }

\* the default of get_periods_by_stats' percentage parameter, 50.0
DefaultPercentage == 50

Percentages == { 0, DefaultPercentage, 67, 100 }

(***************************************************************************)
(* Helpers on sequences, sets and rationals                                *)
(***************************************************************************)
Abs(x) == IF x < 0 THEN -x ELSE x

Range(s) == { s[i] : i \in DOMAIN s }

Reverse(s) == [ i \in 1..Len(s) |-> s[Len(s) + 1 - i] ]

SetMin(S) == CHOOSE x \in S : \A y \in S : x <= y

SetMax(S) == CHOOSE x \in S : \A y \in S : x >= y

RECURSIVE Concat(_)
\* list.extend over a sequence of sequences
Concat(ss) == IF ss = << >> THEN << >> ELSE Head(ss) \o Concat(Tail(ss))

RECURSIVE Sorted(_)
\* sorted(S) of a set of integers: ascending
Sorted(S) == IF S = {} THEN << >>
             ELSE LET m == SetMin(S) IN << m >> \o Sorted(S \ {m})

\* the sequences over S of length at most n
SeqsUpTo(S, n) == UNION { [ 1..k -> S ] : k \in 0..n }

RECURSIVE Orderings(_)
\* every ordering of the finite set S, as a sequence
Orderings(S) ==
    IF S = {} THEN { << >> }
    ELSE UNION { { << x >> \o t : t \in Orderings(S \ {x}) } : x \in S }

\* 1.0 / x for a rational x = <<n, d>>, n > 0
OneOver(x) == << x[2], x[1] >>

\* a frequency (integer micro-hertz) as a rational
Freq(f) == << f, 1 >>

(***************************************************************************)
(* The station files and what mt.MT reads from each                        *)
(***************************************************************************)
\* the edi files a collection can be built from
StationFiles == { "S1", "S2", "S3", "S4", "S5" }

\* mt_obj.Z.freq of each file, in the file's sample order.  S1..S3 are the
\* lists 1,2 / 1,2 / 1,3 Hz; S4 holds a sample 0.000005 Hz above 1 Hz and then
\* 1 Hz itself; S5 holds 1.05 Hz and 0.95 Hz, the two ends of the 5% window
\* around 1 Hz.
Z_freq(edi) ==
    CASE edi = "S1" -> << Hz, 2 * Hz >>
      [] edi = "S2" -> << Hz, 2 * Hz >>
      [] edi = "S3" -> << Hz, 3 * Hz >>
      [] edi = "S4" -> << Hz + (tolerance \div 2), Hz >>
      [] edi = "S5" -> << (105 * Hz) \div 100, (95 * Hz) \div 100 >>

\* the number of the file, used to tell one station's values from another's
StationNo(edi) ==
    CASE edi = "S1" -> 1 [] edi = "S2" -> 2 [] edi = "S3" -> 3
      [] edi = "S4" -> 4 [] edi = "S5" -> 5

\* the lists of at most n station files a collection is built from: no file
\* twice, the files in directory order or in the reverse of it
EdiLists(n) ==
    { s \in SeqsUpTo(StationFiles, n) :
         \/ \A i, j \in DOMAIN s : i < j => StationNo(s[i]) < StationNo(s[j])
         \/ \A i, j \in DOMAIN s : i < j => StationNo(s[i]) > StationNo(s[j]) }

\* a per-sample series of a station: one value per sample, all different
Series(edi, k) == [ i \in DOMAIN Z_freq(edi) |-> 1000 * StationNo(edi) + 10 * k + i ]

\* mt.MT(edi): the station object read from one file
MT(edi) ==
    [ station            |-> edi,
      lon                |-> 130 + ((StationNo(edi) * 7) % 5),
      lat                |-> ((StationNo(edi) * 3) % 4) - 20,
      elev               |-> 0,
      utm_zone           |-> "53K",
      Z_freq             |-> Z_freq(edi),
      pt_phimin          |-> Series(edi, 1),
      pt_phimax          |-> Series(edi, 2),
      pt_azimuth         |-> Series(edi, 3),
      pt_beta            |-> Series(edi, 4),
      pt_ellipticity     |-> Series(edi, 5),
      Tipper_mag_real    |-> Series(edi, 6),
      Tipper_mag_imag    |-> Series(edi, 7),
      Tipper_angle_real  |-> Series(edi, 8),
      Tipper_angle_imag  |-> Series(edi, 9) ]

(***************************************************************************)
(* is_it_in                                                                *)
(***************************************************************************)
\* the comparison with <= in place of <
CloseOrAtTolerance(anum, an_number) ==
    Abs(anum[1] - an_number * anum[2]) <= tolerance * anum[2]

\* abs(anum - an_number) < tolerance, anum a rational <<n, d>>, an_number an
\* integer frequency
Close(anum, an_number) ==
    Abs(anum[1] - an_number * anum[2]) < tolerance * anum[2]

\* is_it_in(anum, aseq): the loop returns True at the first close element
is_it_in(anum, aseq) == \E i \in DOMAIN aseq : Close(anum, aseq[i])

(***************************************************************************)
(* EdiCollection._get_all_periods                                          *)
(***************************************************************************)
\* the reciprocals taken without reverse=True
PeriodsOfUnreversed(freqs) == [ i \in DOMAIN freqs |-> OneOver(Freq(freqs[i])) ]

\* 1.0 / np.array(sorted(all_frequencies, reverse=True))
PeriodsOf(freqs) ==
    LET rev == Reverse(freqs)
    IN  [ i \in DOMAIN rev |-> OneOver(Freq(rev[i])) ]

\* the method on an object whose all_frequencies is self_all_frequencies:
\* what it returns and what it leaves in self.all_frequencies
GetAllPeriods(self_all_frequencies, self_mt_obj_list) ==
    IF ~IsNone(self_all_frequencies)  \* already initialized
    THEN [ value |-> None, all_frequencies |-> self_all_frequencies ]
    ELSE LET all_freqs == Concat([ i \in DOMAIN self_mt_obj_list |->
                                      self_mt_obj_list[i].Z_freq ])
             freqs     == Sorted(Range(all_freqs))
         IN  [ value |-> PeriodsOf(freqs), all_frequencies |-> freqs ]

(***************************************************************************)
(* EdiCollection.create_mt_station_gdf and get_bounding_box                *)
(***************************************************************************)
\* the station table: one row per station object, with its point geometry
CreateMtStationGdf(self_mt_obj_list) ==
    [ i \in DOMAIN self_mt_obj_list |->
        LET mtobj == self_mt_obj_list[i]
        IN  [ StationId |-> mtobj.station, Lon |-> mtobj.lon, Lat |-> mtobj.lat,
              Elev |-> mtobj.elev, UtmZone |-> mtobj.utm_zone,
              geometry |-> << mtobj.lon, mtobj.lat >> ] ]

\* GeoDataFrame.total_bounds: (minx, miny, maxx, maxy), nan for no rows
TotalBounds(gdf) ==
    IF gdf = << >> THEN << "nan", "nan", "nan", "nan" >>
    ELSE LET xs == { gdf[i].geometry[1] : i \in DOMAIN gdf }
             ys == { gdf[i].geometry[2] : i \in DOMAIN gdf }
         IN  << SetMin(xs), SetMin(ys), SetMax(xs), SetMax(ys) >>

\* get_bounding_box(epsgcode=None): the box in the stations' own projection
\* (the reprojection of the other branch is geopandas' and is not modelled)
GetBoundingBox(self_geopdf) ==
    LET tup == TotalBounds(self_geopdf)
    IN  [ MinLon |-> tup[1], MinLat |-> tup[2], MaxLon |-> tup[3], MaxLat |-> tup[4] ]

(***************************************************************************)
(* EdiCollection.__init__                                                  *)
(***************************************************************************)
\* the assertion with >= in place of >
NonEmptyAssertOffByOne(edilist) == Len(edilist) >= 0

\* assert len(self.edifiles) > 0
NonEmptyAssert(edilist) == Len(edilist) > 0

NoCall == [ op |-> None, args |-> << >>, ret |-> None ]

Init ==
    /\ constructed = FALSE
    /\ error = None
    /\ edifiles = None
    /\ num_of_edifiles = None
    /\ ptol = None
    /\ mt_obj_list = None
    /\ all_frequencies = None
    /\ all_periods = None
    /\ geopdf = None
    /\ bound_box_dict = None
    /\ files = << >>
    /\ call = NoCall

\* obj = EdiCollection(edilist, ptol=p)
Construct(edilist, p) ==
    /\ ~constructed
    /\ error = None
    /\ call' = [ op |-> "__init__", args |-> << edilist, p >>, ret |-> None ]
    /\ files' = files
    /\ IF ~NonEmptyAssert(edilist)
       THEN \* the assertion fails: no object is bound
            /\ error' = "AssertionError"
            /\ UNCHANGED obj_vars
       ELSE LET objs == [ i \in DOMAIN edilist |-> MT(edilist[i]) ]
                per  == GetAllPeriods(None, objs)
                gdf  == CreateMtStationGdf(objs)
            IN  /\ error' = None
                /\ constructed' = TRUE
                /\ edifiles' = edilist
                /\ num_of_edifiles' = Len(edilist)
                /\ ptol' = p
                /\ mt_obj_list' = objs
                /\ all_frequencies' = per.all_frequencies
                /\ all_periods' = per.value
                /\ geopdf' = gdf
                /\ bound_box_dict' = GetBoundingBox(gdf)

(***************************************************************************)
(* EdiCollection.get_periods_by_stats                                      *)
(***************************************************************************)
\* acount: the station objects whose Z.freq holds 1.0/aper by is_it_in
Count(aper, self_mt_obj_list) ==
    Cardinality({ i \in DOMAIN self_mt_obj_list :
                     is_it_in(OneOver(aper), self_mt_obj_list[i].Z_freq) })

\* the comparison with > in place of >=
MeetsPercentageStrict(acount, n, percentage) == 100 * acount > percentage * n

\* (100.0*acount)/self.num_of_edifiles >= percentage, num_of_edifiles > 0
MeetsPercentage(acount, n, percentage) == 100 * acount >= percentage * n

\* the loop starting at the second period
AdictSkippingFirst(self_all_periods, self_mt_obj_list, n, percentage) ==
    LET kept == { aper \in Range(Tail(self_all_periods)) :
                     MeetsPercentage(Count(aper, self_mt_obj_list), n, percentage) }
    IN  [ aper \in kept |-> Count(aper, self_mt_obj_list) ]

\* adict after the loop: the retained periods, each with its count
Adict(self_all_periods, self_mt_obj_list, n, percentage) ==
    LET kept == { aper \in Range(self_all_periods) :
                     MeetsPercentage(Count(aper, self_mt_obj_list), n, percentage) }
    IN  [ aper \in kept |-> Count(aper, self_mt_obj_list) ]

\* adict.items(): the (period, count) pairs in the dict's iteration order,
\* which Python 2 leaves arbitrary
Items(adict) ==
    { [ i \in DOMAIN o |-> << o[i], adict[o[i]] >> ] : o \in Orderings(DOMAIN adict) }

RECURSIVE InsertDesc(_, _)
\* pc put into a sequence sorted by descending count, behind every pair
\* whose count is at least its own
InsertDesc(pc, sorted) ==
    IF sorted = << >> THEN << pc >>
    ELSE IF Head(sorted)[2] >= pc[2]
         THEN << Head(sorted) >> \o InsertDesc(pc, Tail(sorted))
         ELSE << pc >> \o sorted

RECURSIVE SortedFrom(_, _)
SortedFrom(items, sorted) ==
    IF items = << >> THEN sorted
    ELSE SortedFrom(Tail(items), InsertDesc(Head(items), sorted))

\* the sort without reverse=True: by ascending count, pairs of equal count in
\* the order they have in items
SortedByCountAscending(items) == Reverse(SortedFrom(Reverse(items), << >>))

\* sorted(items, key=lambda value: value[1], reverse=True): by descending
\* count, pairs of equal count in the order they have in items
SortedByCount(items) == SortedFrom(items, << >>)

\* [pc[0] for pc in mydict_ordered]
SelectedPeriods(mydict_ordered) ==
    [ i \in DOMAIN mydict_ordered |-> mydict_ordered[i][1] ]

\* obj.get_periods_by_stats(percentage)
GetPeriodsByStats(percentage) ==
    /\ constructed
    /\ LET adict == Adict(all_periods, mt_obj_list, num_of_edifiles, percentage)
       IN  \E selected_periods \in
                 { SelectedPeriods(SortedByCount(items)) : items \in Items(adict) } :
              call' = [ op   |-> "get_periods_by_stats",
                        args |-> << percentage >>,
                        ret  |-> selected_periods ]
    /\ error' = None
    /\ UNCHANGED << obj_vars, files >>

(***************************************************************************)
(* EdiCollection.create_csv_files_moved                                    *)
(***************************************************************************)
csv_header == << "station", "freq", "lon", "lat", "phi_min", "phi_max", "azimuth",
                 "skew", "n_skew", "elliptic", "tip_mag_re", "tip_mag_im",
                 "tip_ang_re", "tip_ang_im" >>

\* str(freq): the integer part and the six decimals of a frequency (the
\* frequencies here have at most seven significant digits, and Python 2
\* prints twelve)
FloatStr(freq) == << freq \div Hz, freq % Hz >>

\* os.path.join(dest_dir, "phase_tensor_tipper.csv")
SummaryName(dest_dir) == << dest_dir, "phase_tensor_tipper.csv", << >> >>

\* csvfname.replace('.csv', '_%sHz.csv' % str(freq))
FreqFileName(dest_dir, freq) ==
    << dest_dir, "phase_tensor_tipper_%sHz.csv", FloatStr(freq) >>

\* the window with >= and <= in place of > and <
InWindowClosed(f2, freq, p) ==
    /\ f2 * p[2] >= freq * (p[2] - p[1])
    /\ f2 * p[2] <= freq * (p[2] + p[1])

\* (f2 > freq * (1 - self.ptol)) and (f2 < freq * (1 + self.ptol)),
\* self.ptol = p[1]/p[2]
InWindow(f2, freq, p) ==
    /\ f2 * p[2] > freq * (p[2] - p[1])
    /\ f2 * p[2] < freq * (p[2] + p[1])

\* f_index_list: the indices of the samples in the window, in sample order
FIndexList(mt_obj, freq, p) ==
    Sorted({ ff \in DOMAIN mt_obj.Z_freq : InWindow(mt_obj.Z_freq[ff], freq, p) })

\* the last matching index in place of the first
PIndexLast(f_index_list) == f_index_list[Len(f_index_list)]

\* p_index = f_index_list[0]
PIndex(f_index_list) == f_index_list[1]

\* pt_stat: the row of one station at one frequency
PtStat(mt_obj, freq, p_index) ==
    << mt_obj.station, freq, mt_obj.lon, mt_obj.lat,
       mt_obj.pt_phimin[p_index],
       mt_obj.pt_phimax[p_index],
       mt_obj.pt_azimuth[p_index],
       mt_obj.pt_beta[p_index],
       2 * mt_obj.pt_beta[p_index],
       mt_obj.pt_ellipticity[p_index],
       mt_obj.Tipper_mag_real[p_index],
       mt_obj.Tipper_mag_imag[p_index],
       mt_obj.Tipper_angle_real[p_index],
       mt_obj.Tipper_angle_imag[p_index] >>

\* the rows one station adds to ptlist at one frequency
StationRows(mt_obj, freq, p) ==
    LET f_index_list == FIndexList(mt_obj, freq, p)
    IN  IF Len(f_index_list) >= 1
        THEN << PtStat(mt_obj, freq, PIndex(f_index_list)) >>
        ELSE << >>   \* 'Freq NOT found for this station': logged, no row

\* ptlist after the loop over self.mt_obj_list
PtList(self_mt_obj_list, freq, p) ==
    Concat([ i \in DOMAIN self_mt_obj_list |-> StationRows(self_mt_obj_list[i], freq, p) ])

\* open(name, "wb"); writerow(csv_header); writerows(rows)
WriteFile(fs, name, rows) == (name :> (<< csv_header >> \o rows)) @@ fs

\* the summary file opened in "wb" mode inside the loop: truncated, not
\* appended to
AppendFileTruncating(fs, name, rows) == (name :> rows) @@ fs

\* open(name, "ab"); writerows(rows)
AppendFile(fs, name, rows) ==
    (name :> ((IF name \in DOMAIN fs THEN fs[name] ELSE << >>) \o rows)) @@ fs

RECURSIVE ExportLoop(_, _, _, _, _)
\* the loop over self.all_frequencies from st = [files, pt_dict]
ExportLoop(freqs, self_mt_obj_list, p, dest_dir, st) ==
    IF freqs = << >> THEN st
    ELSE LET freq   == Head(freqs)
             ptlist == PtList(self_mt_obj_list, freq, p)
             fs1    == AppendFile(st.files, SummaryName(dest_dir), ptlist)
             fs2    == WriteFile(fs1, FreqFileName(dest_dir, freq), ptlist)
         IN  ExportLoop(Tail(freqs), self_mt_obj_list, p, dest_dir,
                        [ files |-> fs2, pt_dict |-> (freq :> ptlist) @@ st.pt_dict ])

DestDirs == { None, "out" }

\* obj.create_csv_files_moved(dest_dir)
CreateCsvFilesMoved(dest_dir) ==
    /\ constructed
    /\ UNCHANGED obj_vars
    /\ IF dest_dir = None
       THEN \* dest_dir = self.outputdir: the object has no such attribute
            /\ error' = "AttributeError"
            /\ files' = files
            /\ call' = [ op |-> "create_csv_files_moved", args |-> << dest_dir >>,
                         ret |-> None ]
       ELSE LET st0 == [ files   |-> WriteFile(files, SummaryName(dest_dir), << >>),
                         pt_dict |-> << >> ]
                st  == ExportLoop(all_frequencies, mt_obj_list, ptol, dest_dir, st0)
            IN  /\ error' = None
                /\ files' = st.files
                /\ call' = [ op |-> "create_csv_files_moved", args |-> << dest_dir >>,
                             ret |-> st.pt_dict ]

(***************************************************************************)
(* The other calls on a built collection                                   *)
(***************************************************************************)
\* obj.get_bounding_box()
CallGetBoundingBox ==
    /\ constructed
    /\ call' = [ op |-> "get_bounding_box", args |-> << None >>,
                 ret |-> GetBoundingBox(geopdf) ]
    /\ error' = None
    /\ UNCHANGED << obj_vars, files >>

\* obj._get_all_periods()
CallGetAllPeriods ==
    /\ constructed
    /\ LET r == GetAllPeriods(all_frequencies, mt_obj_list)
       IN  /\ all_frequencies' = r.all_frequencies
           /\ call' = [ op |-> "_get_all_periods", args |-> << >>, ret |-> r.value ]
    /\ error' = None
    /\ UNCHANGED << constructed, edifiles, num_of_edifiles, ptol, mt_obj_list,
                    all_periods, geopdf, bound_box_dict, files >>

Next ==
    \/ \E edilist \in EdiLists(MaxStations), p \in Ptols :
          Construct(edilist, p)
    \/ \E percentage \in Percentages : GetPeriodsByStats(percentage)
    \/ \E dest_dir \in DestDirs : CreateCsvFilesMoved(dest_dir)
    \/ CallGetBoundingBox
    \/ CallGetAllPeriods

Spec == Init /\ [][Next]_vars

(***************************************************************************)
(* is_it_in called on its own                                              *)
(***************************************************************************)
\* the numbers looked for: 1 Hz, 2 Hz, and 1.0/(1/3 Hz)
Anums == { Freq(Hz), Freq(2 * Hz), OneOver(<< 1, 3 * Hz >>) }

\* the elements of the sequences searched
SeqValues == { Hz - tolerance, Hz - tolerance + 1, Hz, Hz + tolerance - 1,
               Hz + tolerance, 3 * Hz }

\* is_it_in(anum, aseq)
CallIsItIn(anum, aseq) ==
    /\ call' = [ op |-> "is_it_in", args |-> << anum, aseq >>,
                 ret |-> is_it_in(anum, aseq) ]
    /\ UNCHANGED << obj_vars, error, files >>

NextIsItIn ==
    \E anum \in Anums, aseq \in SeqsUpTo(SeqValues, MaxSeqLen) : CallIsItIn(anum, aseq)

SpecIsItIn == Init /\ [][NextIsItIn]_vars

(***************************************************************************)
(* The command line: python edi_collection.py [path [dest_dir]]            *)
(***************************************************************************)
\* the most words on a command line, the name of the program included
MaxArgs == 3

\* sys.argv[0]
ProgName == "edi_collection.py"

\* the directories there are: one holding station files, two holding none
Dirs == { "edi_dir", "empty_dir", "out" }

\* the files there are besides the station files
OtherFiles == { "notes.txt" }

Paths == Dirs \cup StationFiles \cup OtherFiles

\* os.path.isdir
isdir(path) == path \in Dirs

\* os.path.isfile
isfile(path) == path \in StationFiles \cup OtherFiles

\* path.endswith('.edi'): the station files are the files of that name
endswith_edi(path) == path \in StationFiles

\* glob.glob(path + '/*.edi'): the lists it may return, in whatever order the
\* directory gives its files
glob(path) ==
    IF path = "edi_dir" THEN EdiLists(MaxStations) \ { << >> } ELSE { << >> }

\* mt.MT(edi) reads the file: it raises for a path that is no station file
Readable(edi) == edi \in StationFiles

\* the command lines: the program's name and up to MaxArgs - 1 paths
Argvs == { << ProgName >> \o a : a \in SeqsUpTo(Paths, MaxArgs - 1) }

\* the test with 1 in place of 2
TooFewArgsOffByOne(argv) == Len(argv) < 1

\* len(sys.argv) < 2
TooFewArgs(argv) == Len(argv) < 2

\* "USAGE: %s edi_dir OR edi_list " % sys.argv[0]
UsageLine(argv) == << "USAGE: %s edi_dir OR edi_list ", argv[1] >>

\* get_periods_by_stats(percentage=10)
MainPercentage == 10

\* "number of stations/edifiles = %s" % self.num_of_edifiles
StationsLine(edilist) == << "number of stations/edifiles = %s", Len(edilist) >>

\* the attributes of EdiCollection(edilist, ptol=p), for a non-empty edilist
\* of readable files
NewCollection(edilist, p) ==
    LET objs == [ i \in DOMAIN edilist |-> MT(edilist[i]) ]
        per  == GetAllPeriods(None, objs)
        gdf  == CreateMtStationGdf(objs)
    IN  [ edifiles        |-> edilist,
          num_of_edifiles |-> Len(edilist),
          ptol            |-> p,
          mt_obj_list     |-> objs,
          all_frequencies |-> per.all_frequencies,
          all_periods     |-> per.value,
          geopdf          |-> gdf,
          bound_box_dict  |-> GetBoundingBox(gdf) ]

\* the first part of the program, up to the binding of obj: the exception
\* raised there (None if none), what was printed, and whether obj is bound
\* and to a collection of which files
MainCollect(argv, globbed) ==
    IF TooFewArgs(argv)
    THEN [ error |-> "SystemExit", stdout |-> << UsageLine(argv) >>,
           bound |-> FALSE, edilist |-> << >> ]
    ELSE IF Len(argv) < 2
    THEN \* argv1 = sys.argv[1]
         [ error |-> "IndexError", stdout |-> << >>,
           bound |-> FALSE, edilist |-> << >> ]
    ELSE LET argv1 == argv[2]
             rest  == Tail(argv)    \* sys.argv[1:]
         IN  IF isdir(argv1)
             THEN IF ~(Len(globbed) > 0) \/ ~NonEmptyAssert(globbed)
                  THEN \* assert(len(edilist) > 0): must has edi files
                       [ error |-> "AssertionError", stdout |-> << >>,
                         bound |-> FALSE, edilist |-> << >> ]
                  ELSE [ error |-> None, stdout |-> << StationsLine(globbed) >>,
                         bound |-> TRUE, edilist |-> globbed ]
             ELSE IF isfile(argv1) /\ endswith_edi(argv1)
             THEN IF \E i \in DOMAIN rest : ~Readable(rest[i])
                  THEN \* mt.MT raises inside EdiCollection.__init__
                       [ error |-> "MTError", stdout |-> << StationsLine(rest) >>,
                         bound |-> FALSE, edilist |-> << >> ]
                  ELSE [ error |-> None, stdout |-> << StationsLine(rest) >>,
                         bound |-> TRUE, edilist |-> rest ]
             ELSE \* pass: the name obj is not bound, and its first use raises
                  [ error |-> "NameError", stdout |-> << >>,
                    bound |-> FALSE, edilist |-> << >> ]

\* python edi_collection.py argv[1:], where glob.glob returns globbed
Main(argv, globbed) ==
    /\ ~constructed
    /\ error = None
    /\ call.op = None
    /\ LET c == MainCollect(argv, globbed)
       IN  IF ~c.bound
           THEN \* the program ends before a collection is built
                /\ error' = c.error
                /\ files' = files
                /\ UNCHANGED obj_vars
                /\ call' = [ op |-> "__main__", args |-> argv,
                             ret |-> [ status |-> 1, stdout |-> c.stdout ] ]
           ELSE LET obj == NewCollection(c.edilist, DefaultPtol)
                IN  /\ constructed' = TRUE
                    /\ edifiles' = obj.edifiles
                    /\ num_of_edifiles' = obj.num_of_edifiles
                    /\ ptol' = obj.ptol
                    /\ mt_obj_list' = obj.mt_obj_list
                    /\ all_frequencies' = obj.all_frequencies
                    /\ all_periods' = obj.all_periods
                    /\ geopdf' = obj.geopdf
                    /\ bound_box_dict' = obj.bound_box_dict
                    /\ IF Len(argv) < 3
                       THEN \* dest_dir=sys.argv[2]
                            /\ error' = "IndexError"
                            /\ files' = files
                            /\ call' = [ op |-> "__main__", args |-> argv,
                                         ret |-> [ status |-> 1, stdout |-> c.stdout ] ]
                       ELSE IF ~isdir(argv[3])
                       THEN \* open(csvfname, "wb") under a path that is no directory
                            /\ error' = "IOError"
                            /\ files' = files
                            /\ call' = [ op |-> "__main__", args |-> argv,
                                         ret |-> [ status |-> 1, stdout |-> c.stdout ] ]
                       ELSE LET dest_dir == argv[3]
                                st0   == [ files   |-> WriteFile(files, SummaryName(dest_dir), << >>),
                                           pt_dict |-> << >> ]
                                st    == ExportLoop(obj.all_frequencies, obj.mt_obj_list,
                                                    obj.ptol, dest_dir, st0)
                                adict == Adict(obj.all_periods, obj.mt_obj_list,
                                               obj.num_of_edifiles, MainPercentage)
                            IN  /\ error' = None
                                /\ files' = st.files
                                /\ \E myper \in { SelectedPeriods(SortedByCount(items)) :
                                                     items \in Items(adict) } :
                                      call' = [ op |-> "__main__", args |-> argv,
                                                ret |-> [ status |-> 0,
                                                          stdout |-> c.stdout \o
                                                                     << << "selected periods:" >>,
                                                                        << myper >> >> ] ]

NextMain ==
    \E argv \in Argvs :
       \E globbed \in (IF Len(argv) >= 2 THEN glob(argv[2]) ELSE { << >> }) :
          Main(argv, globbed)

SpecMain == Init /\ [][NextMain]_vars

(***************************************************************************)
(* Properties of get_periods_by_stats                                      *)
(***************************************************************************)
\* the last call is get_periods_by_stats, and it returned
StatsReturned == call.op = "get_periods_by_stats"

\* the stations of the collection whose frequency list holds a value that
\* is_it_in finds approximately equal to 1/p
Present(p) ==
    { i \in DOMAIN mt_obj_list : is_it_in(OneOver(p), mt_obj_list[i].Z_freq) }

\* the place of period p in all_periods
PlaceOf(p) == CHOOSE i \in DOMAIN all_periods : all_periods[i] = p

\* the collection is built from the lists 1,2 / 1,2 / 1,3 Hz
ThreeStationExample ==
    [ i \in DOMAIN mt_obj_list |-> mt_obj_list[i].Z_freq ]
        = << << Hz, 2 * Hz >>, << Hz, 2 * Hz >>, << Hz, 3 * Hz >> >>

\* C1: get_periods_by_stats(percentage) returns exactly the periods p of
\* all_periods with 100 * count(p) / num_of_edifiles >= percentage, count(p)
\* the number of stations holding 1/p by is_it_in; at 100 every returned
\* period is present in every station; for the lists 1,2 / 1,2 / 1,3 Hz and
\* 50 the periods 1.0 and 0.5 are returned and 1/3 is not.
C1_RetainedPeriods ==
    StatsReturned =>
        LET percentage == call.args[1]
            returned   == Range(call.ret)
        IN  /\ returned = { p \in Range(all_periods) :
                               100 * Cardinality(Present(p))
                                   >= percentage * num_of_edifiles }
            /\ percentage = 100 =>
                   \A p \in returned : Present(p) = DOMAIN mt_obj_list
            /\ (ThreeStationExample /\ percentage = 50) =>
                   returned = { << 1, Hz >>, << 1, 2 * Hz >> }

\* the three-station example at 50: two periods kept, 1/3 s dropped
C1_Witness ==
    /\ StatsReturned
    /\ ThreeStationExample
    /\ call.args[1] = 50
    /\ Len(call.ret) = 2
    /\ << 1, 3 * Hz >> \in Range(all_periods) \ Range(call.ret)

\* the counts along the returned sequence never increase
DescendingCounts ==
    \A i, j \in DOMAIN call.ret :
        i < j => Cardinality(Present(call.ret[i])) >= Cardinality(Present(call.ret[j]))

\* returned periods of equal count stand in the order they have in all_periods
TiesInOriginalOrder ==
    \A i, j \in DOMAIN call.ret :
        (i < j /\ Cardinality(Present(call.ret[i])) = Cardinality(Present(call.ret[j])))
            => PlaceOf(call.ret[i]) < PlaceOf(call.ret[j])

\* C2 as stated: the returned sequence is sorted by descending count, and
\* periods of equal count keep the relative order they have in all_periods.
C2_Original == StatsReturned => (DescendingCounts /\ TiesInOriginalOrder)

\* C2 as amended: the returned sequence is sorted by descending presence
\* count; the order of periods of equal count is not fixed by all_periods.
C2_DescendingCounts == StatsReturned => DescendingCounts

\* a result with two different counts in which two periods of equal count
\* stand against their order in all_periods
C2_Witness ==
    /\ StatsReturned
    /\ \E i, j \in DOMAIN call.ret :
          Cardinality(Present(call.ret[i])) > Cardinality(Present(call.ret[j]))
    /\ ~TiesInOriginalOrder

\* C3 as stated: get_periods_by_stats(0) returns the sequence all_periods.
C3_Original == (StatsReturned /\ call.args[1] = 0) => call.ret = all_periods

\* C3 as amended: get_periods_by_stats(0) returns every period of
\* all_periods exactly once (none dropped, added or duplicated), in the order
\* of descending count, which need not be the order of all_periods.
C3_AllPeriodsOnce ==
    (StatsReturned /\ call.args[1] = 0) =>
        /\ Len(call.ret) = Len(all_periods)
        /\ Range(call.ret) = Range(all_periods)
        /\ \A i, j \in DOMAIN call.ret : i # j => call.ret[i] # call.ret[j]

\* a call at 0 that returns all the periods in another order than all_periods
C3_Witness ==
    /\ StatsReturned
    /\ call.args[1] = 0
    /\ Len(call.ret) >= 3
    /\ Range(call.ret) = Range(all_periods)
    /\ call.ret # all_periods

(***************************************************************************)
(* Properties of the constructor and of _get_all_periods                   *)
(***************************************************************************)
\* every frequency value of every station of the collection
StationFrequencies ==
    UNION { Range(mt_obj_list[i].Z_freq) : i \in DOMAIN mt_obj_list }

\* C4: on a built collection all_frequencies is the duplicate-free ascending
\* union of the stations' frequency values, and all_periods has the same
\* length with all_periods[i] = 1 / all_frequencies[n-1-i] (0-based), so that
\* the periods ascend.
C4_FrequenciesAndPeriods ==
    constructed =>
        LET n == Len(all_frequencies)
        IN  /\ \A i, j \in 1..n : i < j => all_frequencies[i] < all_frequencies[j]
            /\ Range(all_frequencies) = StationFrequencies
            /\ Len(all_periods) = n
            /\ \A i \in 1..n :
                  \* all_periods[i] = 1 / all_frequencies[n + 1 - i], 1-based
                  /\ all_periods[i][2] > 0
                  /\ all_periods[i][1] * all_frequencies[n + 1 - i] = all_periods[i][2]
            /\ \A i \in 1..(n - 1) :
                  all_periods[i][1] * all_periods[i + 1][2]
                      < all_periods[i + 1][1] * all_periods[i][2]

\* a collection of several stations that share a frequency, with at least
\* three different frequencies
C4_Witness ==
    /\ constructed
    /\ Len(mt_obj_list) >= 2
    /\ Len(all_frequencies) >= 3
    /\ Len(all_frequencies) < Len(Concat([ i \in DOMAIN mt_obj_list |->
                                              mt_obj_list[i].Z_freq ]))
    /\ Len(all_periods) = Len(all_frequencies)

\* C6: building a collection from an empty list fails with the assertion
\* error and yields no object: no attribute is computed.
C6_EmptyInputFails ==
    (call.op = "__init__" /\ Len(call.args[1]) = 0) =>
        /\ ~constructed
        /\ error = "AssertionError"
        /\ IsNone(mt_obj_list)
        /\ IsNone(all_frequencies)
        /\ IsNone(all_periods)
        /\ IsNone(geopdf)
        /\ IsNone(bound_box_dict)

\* the constructor was called with an empty list and raised
C6_Witness ==
    /\ call.op = "__init__"
    /\ call.args[1] = << >>
    /\ error = "AssertionError"
    /\ ~constructed

(***************************************************************************)
(* Properties of is_it_in                                                  *)
(***************************************************************************)
\* the last call is is_it_in(x, seq)
IsItInReturned == call.op = "is_it_in"

\* |x - e| * d for the rational x = n/d and the integer e
Distance(x, e) == Abs(x[1] - e * x[2])

\* C5 as stated: is_it_in(x, seq) is true iff some element of seq lies within
\* 1e-5 of x, an element at distance exactly 1e-5 included; false for an
\* empty seq.
C5_Original ==
    IsItInReturned =>
        LET x == call.args[1]
            seq == call.args[2]
        IN  call.ret <=> \E i \in DOMAIN seq : Distance(x, seq[i]) <= tolerance * x[2]

\* C5 as amended: is_it_in(x, seq) is true iff some element of seq lies at a
\* distance strictly less than 1e-5 from x (an element at distance exactly
\* 1e-5 does not count), whatever the order of seq; false for an empty seq.
C5_StrictlyWithinTolerance ==
    IsItInReturned =>
        LET x == call.args[1]
            seq == call.args[2]
        IN  /\ call.ret <=> \E i \in DOMAIN seq : Distance(x, seq[i]) < tolerance * x[2]
            /\ seq = << >> => ~call.ret

\* a call whose only near element is at distance exactly 1e-5: not found
C5_Witness ==
    /\ IsItInReturned
    /\ \E i \in DOMAIN call.args[2] :
          Distance(call.args[1], call.args[2][i]) = tolerance * call.args[1][2]
    /\ ~call.ret

(***************************************************************************)
(* Properties of create_csv_files_moved                                    *)
(***************************************************************************)
\* the last call is create_csv_files_moved(dest_dir), and it returned its
\* mapping
ExportReturned == call.op = "create_csv_files_moved" /\ error = None

\* the rows of a csv file below its header row
DataRows(name) == Len(files[name]) - 1

\* the places in the row list of frequency freq that hold a row of station i
RowsOf(i, freq) ==
    { k \in DOMAIN call.ret[freq] : call.ret[freq][k][1] = mt_obj_list[i].station }

\* the samples of station i inside the tolerance window of freq
Matches(i, freq) ==
    { ff \in DOMAIN mt_obj_list[i].Z_freq :
         InWindow(mt_obj_list[i].Z_freq[ff], freq, ptol) }

RECURSIVE SumDataRows(_, _)
\* the data rows of the per-frequency files of freqs, added up
SumDataRows(dest_dir, freqs) ==
    IF freqs = << >> THEN 0
    ELSE DataRows(FreqFileName(dest_dir, Head(freqs)))
             + SumDataRows(dest_dir, Tail(freqs))

\* C7: a station with no sample inside the window of a frequency has no row
\* in that frequency's row list and the export goes on over every frequency;
\* afterwards the data rows of the aggregate table are as many as those of
\* the per-frequency tables together, each of which has as many as the
\* returned mapping's row list of its frequency.
C7_RowCounts ==
    ExportReturned =>
        LET dest_dir == call.args[1]
        IN  /\ DOMAIN call.ret = Range(all_frequencies)
            /\ \A freq \in Range(all_frequencies) :
                  /\ \A i \in DOMAIN mt_obj_list :
                        Matches(i, freq) = {} => RowsOf(i, freq) = {}
                  /\ DataRows(FreqFileName(dest_dir, freq)) = Len(call.ret[freq])
            /\ DataRows(SummaryName(dest_dir)) = SumDataRows(dest_dir, all_frequencies)

\* an export in which a station without a sample in the window of a
\* frequency is followed by a station that has a row there, and in which a
\* later frequency has rows too
C7_Witness ==
    /\ ExportReturned
    /\ \E a, b \in DOMAIN all_frequencies, i, j \in DOMAIN mt_obj_list :
          /\ a < b
          /\ i < j
          /\ Matches(i, all_frequencies[a]) = {}
          /\ RowsOf(j, all_frequencies[a]) # {}
          /\ Len(call.ret[all_frequencies[b]]) > 0
    /\ DataRows(SummaryName(call.args[1])) > Len(all_frequencies)

\* C8: a station with more than one sample in the window of a frequency has
\* exactly one row there, read at the first matching index in the station's
\* sample order; no station has more than one row in one frequency's list.
C8_FirstMatchOneRow ==
    ExportReturned =>
        \A freq \in Range(all_frequencies), i \in DOMAIN mt_obj_list :
            /\ Cardinality(RowsOf(i, freq)) <= 1
            /\ Matches(i, freq) # {} =>
                  LET first  == SetMin(Matches(i, freq))
                      mt_obj == mt_obj_list[i]
                  IN  /\ Cardinality(RowsOf(i, freq)) = 1
                      /\ \A k \in RowsOf(i, freq) :
                            LET row == call.ret[freq][k]
                            IN  /\ row[2] = freq
                                /\ row[5] = mt_obj.pt_phimin[first]
                                /\ row[6] = mt_obj.pt_phimax[first]
                                /\ row[7] = mt_obj.pt_azimuth[first]
                                /\ row[8] = mt_obj.pt_beta[first]
                                /\ row[9] = 2 * mt_obj.pt_beta[first]
                                /\ row[10] = mt_obj.pt_ellipticity[first]
                                /\ row[11] = mt_obj.Tipper_mag_real[first]
                                /\ row[12] = mt_obj.Tipper_mag_imag[first]
                                /\ row[13] = mt_obj.Tipper_angle_real[first]
                                /\ row[14] = mt_obj.Tipper_angle_imag[first]

\* an export in which a station has two samples in the window of a frequency
\* and the first of them is not the nearest to it
C8_Witness ==
    /\ ExportReturned
    /\ \E freq \in Range(all_frequencies), i \in DOMAIN mt_obj_list :
          /\ Cardinality(Matches(i, freq)) > 1
          /\ \E ff \in Matches(i, freq) :
                Abs(mt_obj_list[i].Z_freq[ff] - freq)
                    < Abs(mt_obj_list[i].Z_freq[SetMin(Matches(i, freq))] - freq)
          /\ RowsOf(i, freq) # {}

\* station i has a sample f2 with lo <= f2 <= hi, the ends of the window of
\* freq at tolerance ptol
HasSampleInClosedWindow(i, freq) ==
    \E ff \in DOMAIN mt_obj_list[i].Z_freq :
        LET f2 == mt_obj_list[i].Z_freq[ff]
        IN  /\ ptol[2] * f2 >= (ptol[2] - ptol[1]) * freq
            /\ ptol[2] * f2 <= (ptol[2] + ptol[1]) * freq

\* station i has a sample f2 with lo < f2 < hi
HasSampleInOpenWindow(i, freq) ==
    \E ff \in DOMAIN mt_obj_list[i].Z_freq :
        LET f2 == mt_obj_list[i].Z_freq[ff]
        IN  /\ ptol[2] * f2 > (ptol[2] - ptol[1]) * freq
            /\ ptol[2] * f2 < (ptol[2] + ptol[1]) * freq

\* C9 as stated: a sample matches a frequency iff it lies in the closed
\* window [freq*(1-ptol), freq*(1+ptol)], so that a station has a row at a
\* frequency iff one of its samples does, a sample on a boundary included.
C9_Original ==
    ExportReturned =>
        \A freq \in Range(all_frequencies), i \in DOMAIN mt_obj_list :
            RowsOf(i, freq) # {} <=> HasSampleInClosedWindow(i, freq)

\* C9 as amended: a sample matches a frequency iff it lies strictly inside
\* the window, freq*(1-ptol) < f2 < freq*(1+ptol); a sample exactly on either
\* boundary is no match and yields no row.
C9_OpenWindow ==
    ExportReturned =>
        \A freq \in Range(all_frequencies), i \in DOMAIN mt_obj_list :
            RowsOf(i, freq) # {} <=> HasSampleInOpenWindow(i, freq)

\* an export in which a station has samples on both boundaries of the window
\* of a frequency, none inside, and no row there
C9_Witness ==
    /\ ExportReturned
    /\ \E freq \in Range(all_frequencies), i \in DOMAIN mt_obj_list :
          /\ \E ff \in DOMAIN mt_obj_list[i].Z_freq :
                ptol[2] * mt_obj_list[i].Z_freq[ff] = (ptol[2] + ptol[1]) * freq
          /\ \E ff \in DOMAIN mt_obj_list[i].Z_freq :
                ptol[2] * mt_obj_list[i].Z_freq[ff] = (ptol[2] - ptol[1]) * freq
          /\ ~HasSampleInOpenWindow(i, freq)
          /\ RowsOf(i, freq) = {}

(***************************************************************************)
(* Properties of the derived attributes                                    *)
(***************************************************************************)
\* C10: on a built collection all_frequencies, all_periods and
\* bound_box_dict keep the values the constructor computed from the station
\* list, whatever is called, and computing a derived attribute again
\* (_get_all_periods, get_bounding_box) returns the value of the first
\* computation.
C10_Original ==
    constructed =>
        LET objs  == [ i \in DOMAIN edifiles |-> MT(edifiles[i]) ]
            first == GetAllPeriods(None, objs)
        IN  /\ all_frequencies = first.all_frequencies
            /\ all_periods = first.value
            /\ bound_box_dict = GetBoundingBox(CreateMtStationGdf(objs))
            /\ call.op = "get_bounding_box" => call.ret = bound_box_dict
            /\ call.op = "_get_all_periods" =>
                  /\ ~IsNone(call.ret)
                  /\ call.ret = all_periods

(***************************************************************************)
(* Properties of the command line                                          *)
(***************************************************************************)
\* the program has run
MainReturned == call.op = "__main__"

\* no input path was given on the command line
NoInputPath == Len(call.args) < 2

\* the input path is a directory without a single .edi file
EmptyDirectory ==
    /\ Len(call.args) >= 2
    /\ isdir(call.args[2])
    /\ glob(call.args[2]) = { << >> }

\* the usage message is on the standard output
UsagePrinted ==
    \E i \in DOMAIN call.ret.stdout : call.ret.stdout[i] = UsageLine(call.args)

\* no collection was built and no csv file was opened
NothingBuiltOrExported ==
    /\ ~constructed
    /\ IsNone(mt_obj_list)
    /\ IsNone(all_frequencies)
    /\ DOMAIN files = {}

\* C11 as stated: run without an input path, or on a directory holding no
\* .edi file, the program exits with a nonzero status and prints the usage
\* message, and neither builds a collection nor starts an export.
C11_Original ==
    (MainReturned /\ (NoInputPath \/ EmptyDirectory)) =>
        /\ call.ret.status # 0
        /\ UsagePrinted
        /\ NothingBuiltOrExported

\* C11: run without an input path the program prints the usage message and
\* exits with status 1 (sys.exit(1)); run on a directory holding no .edi file
\* it ends with a nonzero status by an AssertionError and prints no usage
\* message; in both cases no collection is built and no export is started.
C11_NonzeroExitNothingBuilt ==
    MainReturned =>
        /\ NoInputPath =>
              /\ call.ret.status = 1
              /\ error = "SystemExit"
              /\ call.ret.stdout = << UsageLine(call.args) >>
              /\ NothingBuiltOrExported
        /\ EmptyDirectory =>
              /\ call.ret.status # 0
              /\ error = "AssertionError"
              /\ ~UsagePrinted
              /\ NothingBuiltOrExported

\* the program was run on the directory without .edi files, with an output
\* directory, and ended by the assertion
C11_Witness ==
    /\ MainReturned
    /\ call.args = << ProgName, "empty_dir", "out" >>
    /\ EmptyDirectory
    /\ error = "AssertionError"
    /\ call.ret.status = 1

=============================================================================
